---- MODULE Spec2Model ----
(***************************************************************************)
(* Job orchestration of the transcriber web application (src/web_app.py): *)
(* the jobs table, the per-job runner threads, the process registry       *)
(* active_job_processes, cancel_job and the download -> transcription     *)
(* chaining.  Every runner thread is a program counter machine; every     *)
(* database statement (INSERT / UPDATE / SELECT) is one atomic step, as   *)
(* sqlite executes it.                                                     *)
(***************************************************************************)
EXTENDS Integers, Sequences, FiniteSets, TLC

\* ---------------------------------------------------------------- bounds
\* Number of job ids (uuid4 values) that can be allocated in one behaviour.
MaxJobs == 3
\* Number of distinct media files (artifact paths).
MaxArtifacts == 2
\* Number of submission requests (submit_job, transcode_to_mp4) that arrive
\* in one behaviour; the other jobs are created from existing ones.
MaxRequests == 1
\* Number of jobs that restart_job creates.
MaxRestarts == 1

JobIds == 1..MaxJobs
Paths == 1..MaxArtifacts

\* SQL NULL / Python None in the integer columns parent_job_id, video_path.
NULL == 0

Terminal == {"completed", "failed", "cancelled"}
\* The states of a spawned process in which it has not ended.
Live == {"alive", "blocked"}

\* Percent values the yt-dlp progress hook reports (d['downloaded_bytes'] /
\* d['total_bytes'] * 100, truncated by int()).
DownloadPercents == {0, 100}
\* progress_percent values of the ffmpeg audio extraction, mapped to
\* final_progress = 1 + int(progress_percent * 2 / 100).
ExtractPercents == {0, 100}
\* Values of min(10 + int(current_timestamp / 60 * 5), 90) in the segment loop.
SegmentPercents == {10, 90}
\* progress_pct = min(time_seconds / duration * 100, 99) of the ffmpeg loop.
TranscodePercents == {0, 99}
\* The milestone that a line of the transcription subprocess reports
\* ('transcription complete'; the milestones 34, 45 and 60 are handled by
\* the same code).
MilestonePercents == {90}
\* The pairs <<current, total>> that a line with a "[current/total]" marker
\* carries (pattern 1 of the output loop); the marker is searched in the
\* whole line, file names and titles included.
PlaylistCounts == {<<3, 2>>}
\* The kinds of output line: a line with a "[current/total]" marker, a line
\* with a milestone keyword, and a line with neither (milestone 0).
OutputLines ==
    {[pattern |-> 1, current |-> c[1], total |-> c[2], milestone |-> 0] :
        c \in PlaylistCounts}
    \cup {[pattern |-> 2, current |-> 0, total |-> 1, milestone |-> m] :
        m \in MilestonePercents \cup {0}}
\* The transcription subprocess prints at most this many lines.
MaxLines == 1

VARIABLES
    jobs,                  \* the jobs table: job id -> row
    next_id,               \* number of uuid4 job ids handed out so far
    requests,              \* number of submission requests accepted so far
    pc,                    \* position of each job's runner thread
    active_job_processes,  \* process registry: ids with a registered Popen
    proc,                  \* state of the OS process spawned for each job
    files,                 \* intermediate files on disk: <<kind, path>>
    downloaded_files,      \* run_download_job local: list of produced files
    existing,              \* produced files that os.path.exists finds
    todo,                  \* run_download_job local: rest of the for loop
    transcription_jobs,    \* run_download_job local: ids of created children
    last_progress,         \* runner local: last progress value reported
    input_path,            \* runner argument: the file the job works on
    audio_source,          \* transcribe_file local: "wav" or "input"
    cancel,                \* the latest cancel_job request: its job_id, its
                           \* position, the status its SELECT returned and
                           \* whether it killed a registered process
    emitted,               \* the payload of the latest job_update event
                           \* emitted for each job id
    output_lines,          \* subprocess runner local: number of output lines
                           \* read so far (capped at 1)
    response,              \* the latest answer of delete_job or restart_job
                           \* or of a rejected cancel_job: the endpoint, its
                           \* job_id, the HTTP code and the new_job_id
    TRANSCRIPTION_AVAILABLE, \* module flag: faster_whisper_latin was
                           \* imported
    db_error,              \* jobs.db is unusable (locked, disk full): every
                           \* sqlite3 statement raises
    job_created            \* the job ids for which a job_created event has
                           \* been emitted

vars == <<jobs, next_id, requests, pc, active_job_processes, proc, files,
          downloaded_files, existing, todo, transcription_jobs,
          last_progress, input_path, audio_source, cancel, emitted,
          output_lines, response, TRANSCRIPTION_AVAILABLE, db_error,
          job_created>>

\* ------------------------------------------------------------ job store
\* The parameters column: json.dumps of a dict.  Of its keys only
\* video_title is read by the job management endpoints; it is "absent" when
\* the dict has no such key.
Parameters(video_title) == [video_title |-> video_title]

\* A row as the INSERT statements write it (progress DEFAULT 0, result and
\* error NULL).
NewRow(url, job_type, parameters, parent, vpath) ==
    [url |-> url, status |-> "queued", progress |-> 0, result |-> "NULL",
     error |-> "NULL", parameters |-> parameters, job_type |-> job_type,
     parent_job_id |-> parent, video_path |-> vpath]

InsertRow(js, id, row) ==
    [k \in (DOMAIN js) \cup {id} |-> IF k = id THEN row ELSE js[k]]

\* An update that writes the row back when the id is absent (INSERT OR
\* REPLACE).
update_job_status_upsert(js, id, status, progress, result, error) ==
    [k \in (DOMAIN js) \cup {id} |->
        IF k = id
        THEN [(IF id \in DOMAIN js THEN js[id]
               ELSE NewRow([scheme |-> "file", path |-> NULL], "transcribe",
                           Parameters("absent"), NULL, NULL))
                 EXCEPT !.status = status, !.progress = progress,
                        !.result = result, !.error = error]
        ELSE js[k]]

\* UPDATE jobs SET status=?, progress=?, updated_at=?, result=?, error=?
\* WHERE id=?   -- no condition on the current status; zero rows when absent.
update_job_status(js, id, status, progress, result, error) ==
    IF id \in DOMAIN js
    THEN [js EXCEPT ![id] = [@ EXCEPT !.status = status,
                                      !.progress = progress,
                                      !.result = result,
                                      !.error = error]]
    ELSE js

\* Removes <base>_clean.wav of a job whose url is a file:// url.
cleanup_wav_file(fs, js, id) ==
    IF id \notin DOMAIN js THEN fs
    ELSE IF js[id].url.scheme = "file"
         THEN fs \ {<<"wav", js[id].url.path>>}
         ELSE fs

\* The files left after update_job_status ran its cleanup branch
\* ("if status in ['cancelled', 'failed']: cleanup_wav_file(job_id)").
FilesAfterUpdate(fs, js, id, status) ==
    IF status \in {"cancelled", "failed"} THEN cleanup_wav_file(fs, js, id)
    ELSE fs

\* DELETE FROM jobs WHERE id = ?
DeleteRow(js, id) == [k \in (DOMAIN js) \ {id} |-> js[k]]

\* GET /api/jobs: every row of the table.
get_jobs(js) == {[id |-> k, job |-> js[k]] : k \in DOMAIN js}

\* GET /api/jobs/<job_id>: the row, or 404 'Job not found'.
get_job(js, id) ==
    IF id \in DOMAIN js THEN [code |-> 200, id |-> id, job |-> js[id]]
    ELSE [code |-> 404, id |-> id, job |-> NULL]

\* No job management request has been answered.
NoResponse == [handler |-> "none", job |-> NULL, code |-> 0,
               new_job_id |-> NULL]

\* No job_update event has been emitted for a job id.
NoEvent == [status |-> "none", progress |-> 0, result |-> "NULL",
            error |-> "NULL"]

\* socketio.emit('job_update', {job_id, status, progress, result, error}):
\* the payload is built from the arguments of update_job_status.
job_update(status, progress, result, error) ==
    [status |-> status, progress |-> progress, result |-> result,
     error |-> error]

\* An update_job_status that publishes terminal statuses only.
Persist_QuietProgress(id, status, progress, result, error) ==
    /\ jobs' = update_job_status(jobs, id, status, progress, result, error)
    /\ files' = FilesAfterUpdate(files, jobs', id, status)
    /\ emitted' = IF status = "running" THEN emitted
                  ELSE [emitted EXCEPT
                          ![id] = job_update(status, progress, result, error)]

\* An update_job_status that notifies the clients although the write
\* raised.
Persist_EmitAlways(id, status, progress, result, error) ==
    /\ jobs' = IF db_error THEN jobs
               ELSE update_job_status(jobs, id, status, progress, result,
                                      error)
    /\ files' = IF db_error THEN files
                ELSE FilesAfterUpdate(files, jobs', id, status)
    /\ emitted' = [emitted EXCEPT
                      ![id] = job_update(status, progress, result, error)]

\* update_job_status as a step: the UPDATE, the cleanup branch and the
\* job_update event, which is emitted whatever rowcount the UPDATE had.
\* When a statement raises, "except Exception" logs and returns: no
\* UPDATE, no cleanup, no event, and the caller goes on.
Persist(id, status, progress, result, error) ==
    IF db_error
    THEN UNCHANGED <<jobs, files, emitted>>
    ELSE /\ jobs' = update_job_status(jobs, id, status, progress, result,
                                      error)
         /\ files' = FilesAfterUpdate(files, jobs', id, status)
         /\ emitted' = [emitted EXCEPT
                           ![id] = job_update(status, progress, result,
                                              error)]

Init ==
    /\ jobs = <<>>
    /\ next_id = 0
    /\ requests = 0
    /\ pc = [j \in JobIds |-> "none"]
    /\ active_job_processes = {}
    /\ proc = [j \in JobIds |-> "none"]
    /\ files = {}
    /\ downloaded_files = [j \in JobIds |-> <<>>]
    /\ existing = [j \in JobIds |-> {}]
    /\ todo = [j \in JobIds |-> <<>>]
    /\ transcription_jobs = [j \in JobIds |-> <<>>]
    /\ last_progress = [j \in JobIds |-> 0]
    /\ input_path = [j \in JobIds |-> NULL]
    /\ audio_source = [j \in JobIds |-> "input"]
    /\ cancel = [job |-> NULL, pc |-> "idle", status |-> "none",
                 killed |-> FALSE]
    /\ emitted = [j \in JobIds |-> NoEvent]
    /\ output_lines = [j \in JobIds |-> 0]
    /\ response = NoResponse
    /\ TRANSCRIPTION_AVAILABLE = TRUE
    /\ db_error = FALSE
    /\ job_created = {}

\* ------------------------------------------------------------ submission
\* submit_job, source_type 'youtube': INSERT a download job and start
\* run_job, which dispatches to run_download_job.
submit_job_youtube ==
    /\ next_id < MaxJobs
    /\ requests < MaxRequests
    /\ requests' = requests + 1
    /\ next_id' = next_id + 1
    /\ jobs' = InsertRow(jobs, next_id + 1,
                 NewRow([scheme |-> "https", path |-> NULL], "download",
                        Parameters("title"), NULL, NULL))
    /\ pc' = [pc EXCEPT ![next_id + 1] = "dl_start"]
    /\ job_created' = job_created \cup ((next_id + 1)..next_id')
    /\ UNCHANGED <<active_job_processes, proc, files, downloaded_files,
                   existing, todo, transcription_jobs, last_progress,
                   input_path, audio_source, cancel, emitted, output_lines,
                   response, TRANSCRIPTION_AVAILABLE, db_error>>

\* submit_job, source_type 'existing' or 'upload': INSERT a transcribe job
\* for file://<path> and start run_job -> run_transcription_job.
submit_job_file(p) ==
    /\ next_id < MaxJobs
    /\ requests < MaxRequests
    /\ requests' = requests + 1
    /\ next_id' = next_id + 1
    /\ jobs' = InsertRow(jobs, next_id + 1,
                 NewRow([scheme |-> "file", path |-> p], "transcribe",
                        Parameters("title"), NULL, NULL))
    /\ pc' = [pc EXCEPT ![next_id + 1] = "tr_start"]
    /\ input_path' = [input_path EXCEPT ![next_id + 1] = p]
    /\ job_created' = job_created \cup ((next_id + 1)..next_id')
    /\ UNCHANGED <<active_job_processes, proc, files, downloaded_files,
                   existing, todo, transcription_jobs, last_progress,
                   audio_source, cancel, emitted, output_lines, response,
                   TRANSCRIPTION_AVAILABLE, db_error>>

\* The submissions that submit_job answers with an error: no url, a url
\* that is not a YouTube url, an upload without file, an existing file
\* that is not found, an unknown source_type, and a beam_size, workers or
\* temperature that int() or float() cannot parse.
Rejections == {"url_required", "invalid_youtube_url", "no_file_uploaded",
               "file_not_found", "invalid_source_type", "malformed_number"}

\* The answer to a rejected submission; the ValueError of int() and float()
\* is not caught in submit_job and is answered 500.
RejectionCode(reason) ==
    CASE reason = "file_not_found" -> 404
      [] reason = "malformed_number" -> 500
      [] OTHER -> 400

\* submit_job for a rejected submission.  The source_type branch runs
\* before the parameters are parsed: for source_type 'upload' the uploaded
\* file p is already saved when a malformed number is met (p = NULL: the
\* submission is not an upload).
submit_job_rejected(reason, p) ==
    /\ p # NULL => reason = "malformed_number"
    /\ response' = [handler |-> "submit_job", job |-> NULL,
                    code |-> RejectionCode(reason), new_job_id |-> NULL]
    /\ files' = IF p # NULL THEN files \cup {<<"upload", p>>} ELSE files
    /\ UNCHANGED <<jobs, next_id, requests, pc, active_job_processes, proc,
                   downloaded_files, existing, todo, transcription_jobs,
                   last_progress, input_path, audio_source, cancel, emitted,
                   output_lines, TRANSCRIPTION_AVAILABLE, db_error,
                   job_created>>

\* A create_transcription_job that loses the back-reference to the download.
ChildRow_NoParent(parent_job_id, video_path) ==
    NewRow([scheme |-> "file", path |-> video_path], "transcribe",
           Parameters("title"), NULL, video_path)

\* create_transcription_job: the row it INSERTs for one downloaded video.
ChildRow(parent_job_id, video_path) ==
    NewRow([scheme |-> "file", path |-> video_path], "transcribe",
           Parameters("title"), parent_job_id, video_path)

\* create_transcription_job: INSERT the child row (the thread running
\* run_transcription_job is started by the calling action).  No look-up of
\* an existing job for the same video_path precedes the INSERT.
create_transcription_job(js, id, parent_job_id, video_path) ==
    InsertRow(js, id, ChildRow(parent_job_id, video_path))

\* ------------------------------------------------------ run_download_job
\* The first statement of the runner: status 'running', progress 5, the
\* message in the result column.  The current status is not read.
run_download_job_start(j) ==
    /\ pc[j] = "dl_start"
    /\ Persist(j, "running", 5, "message", "NULL")
    /\ pc' = [pc EXCEPT ![j] = "dl_run"]
    /\ UNCHANGED <<next_id, requests, active_job_processes, proc,
                   downloaded_files, existing, todo, transcription_jobs,
                   last_progress, input_path, audio_source, cancel,
                   output_lines, response, TRANSCRIPTION_AVAILABLE, db_error,
                   job_created>>

\* progress_hook, d['status'] == 'downloading': one report of int(percent).
\* A playlist starts again at 0 for each of its videos.
progress_hook(j) ==
    /\ pc[j] = "dl_run"
    /\ \E percent \in DownloadPercents :
          Persist(j, "running", percent, "message", "NULL")
    /\ UNCHANGED <<next_id, requests, pc, active_job_processes, proc,
                   downloaded_files, existing, todo, transcription_jobs,
                   last_progress, input_path, audio_source, cancel,
                   output_lines, response, TRANSCRIPTION_AVAILABLE, db_error,
                   job_created>>

Range(s) == {s[i] : i \in 1..Len(s)}

\* Lists of paths without repetition ("filename not in downloaded_files"),
\* written in path order.
FileLists ==
    {s \in UNION {[1..n -> Paths] : n \in 0..MaxArtifacts} :
        \A a, b \in 1..Len(s) : a < b => s[a] < s[b]}

\* ydl.extract_info returned: the list of produced file names is complete;
\* some of the named files exist on disk, others (renamed by a merge) not.
run_download_job_extracted(j) ==
    /\ pc[j] = "dl_run"
    /\ \E df \in FileLists, ex \in SUBSET Paths :
          /\ ex \subseteq Range(df)
          /\ downloaded_files' = [downloaded_files EXCEPT ![j] = df]
          /\ existing' = [existing EXCEPT ![j] = ex]
          /\ todo' = [todo EXCEPT ![j] = df]
    /\ pc' = [pc EXCEPT ![j] = "dl_children"]
    /\ UNCHANGED <<jobs, next_id, requests, active_job_processes, proc, files,
                   transcription_jobs, last_progress, input_path,
                   audio_source, cancel, emitted, output_lines, response,
                   TRANSCRIPTION_AVAILABLE, db_error, job_created>>

\* The paths of the loop "for video_path in downloaded_files" for which
\* os.path.exists(video_path) holds.
ShouldCreate(j, video_path) == video_path \in existing[j]

\* One iteration of the loop: a child job for a file that exists, nothing
\* for one that does not.
run_download_job_child(j) ==
    /\ pc[j] = "dl_children"
    /\ todo[j] # <<>>
    /\ LET video_path == Head(todo[j]) IN
         IF ShouldCreate(j, video_path)
         THEN /\ next_id < MaxJobs
              /\ next_id' = next_id + 1
              /\ jobs' = create_transcription_job(jobs, next_id + 1, j,
                                                  video_path)
              /\ pc' = [pc EXCEPT ![next_id + 1] = "tr_start"]
              /\ input_path' = [input_path EXCEPT ![next_id + 1] = video_path]
              /\ transcription_jobs' =
                    [transcription_jobs EXCEPT ![j] = Append(@, next_id + 1)]
         ELSE UNCHANGED <<next_id, jobs, pc, input_path, transcription_jobs>>
    /\ todo' = [todo EXCEPT ![j] = Tail(@)]
    /\ job_created' = job_created \cup ((next_id + 1)..next_id')
    /\ UNCHANGED <<requests, active_job_processes, proc, files,
                   downloaded_files, existing, last_progress, audio_source,
                   cancel, emitted, output_lines, response,
                   TRANSCRIPTION_AVAILABLE, db_error>>

\* A run_download_job whose final write carries progress 0.
run_download_job_completed_keep(j) ==
    /\ pc[j] = "dl_children"
    /\ todo[j] = <<>>
    /\ Persist(j, "completed", 0, "result", "NULL")
    /\ pc' = [pc EXCEPT ![j] = "done"]
    /\ downloaded_files' = [downloaded_files EXCEPT ![j] = <<>>]
    /\ existing' = [existing EXCEPT ![j] = {}]
    /\ transcription_jobs' = [transcription_jobs EXCEPT ![j] = <<>>]
    /\ UNCHANGED <<next_id, requests, active_job_processes, proc, todo,
                   last_progress, input_path, audio_source, cancel,
                   output_lines, response, TRANSCRIPTION_AVAILABLE, db_error,
                   job_created>>

\* After the loop: status 'completed', progress 100, the result message;
\* the thread ends and its locals with it.
run_download_job_completed(j) ==
    /\ pc[j] = "dl_children"
    /\ todo[j] = <<>>
    /\ Persist(j, "completed", 100, "result", "NULL")
    /\ pc' = [pc EXCEPT ![j] = "done"]
    /\ downloaded_files' = [downloaded_files EXCEPT ![j] = <<>>]
    /\ existing' = [existing EXCEPT ![j] = {}]
    /\ transcription_jobs' = [transcription_jobs EXCEPT ![j] = <<>>]
    /\ UNCHANGED <<next_id, requests, active_job_processes, proc, todo,
                   last_progress, input_path, audio_source, cancel,
                   output_lines, response, TRANSCRIPTION_AVAILABLE, db_error,
                   job_created>>

\* except Exception: status 'failed', progress 0, the error message.
run_download_job_failed(j) ==
    /\ pc[j] = "dl_run"
    /\ Persist(j, "failed", 0, "NULL", "error")
    /\ pc' = [pc EXCEPT ![j] = "done"]
    /\ UNCHANGED <<next_id, requests, active_job_processes, proc,
                   downloaded_files, existing, todo, transcription_jobs,
                   last_progress, input_path, audio_source, cancel,
                   output_lines, response, TRANSCRIPTION_AVAILABLE, db_error,
                   job_created>>

\* ------------------------------------------------------------ cancel_job
\* SELECT status; the request goes on only for 'queued' or 'running'.
cancel_job_check(j) ==
    /\ cancel.pc = "idle"
    /\ j \in DOMAIN jobs
    /\ jobs[j].status \in {"queued", "running"}
    /\ cancel' = [job |-> j, pc |-> "kill", status |-> jobs[j].status,
                  killed |-> FALSE]
    /\ UNCHANGED <<jobs, next_id, requests, pc, active_job_processes, proc,
                   files, downloaded_files, existing, todo,
                   transcription_jobs, last_progress, input_path,
                   audio_source, emitted, output_lines, response,
                   TRANSCRIPTION_AVAILABLE, db_error, job_created>>

\* "if job_id in active_job_processes": kill the process tree (children,
\* then the parent), parent.wait(timeout=3), pop the entry.  A process
\* that is alive dies of the kill; for one that is blocked the wait times
\* out and the handler sends process.terminate(), which is not delivered
\* either.
cancel_job_kill ==
    /\ cancel.pc = "kill"
    /\ IF cancel.job \in active_job_processes
       THEN /\ proc' = [proc EXCEPT ![cancel.job] =
                           IF @ = "alive" THEN "killed" ELSE @]
            /\ active_job_processes' = active_job_processes \ {cancel.job}
            /\ cancel' = [cancel EXCEPT !.pc = "cleanup", !.killed = TRUE]
       ELSE /\ cancel' = [cancel EXCEPT !.pc = "cleanup"]
            /\ UNCHANGED <<proc, active_job_processes>>
    /\ UNCHANGED <<jobs, next_id, requests, pc, files, downloaded_files,
                   existing, todo, transcription_jobs, last_progress,
                   input_path, audio_source, emitted, output_lines, response,
                   TRANSCRIPTION_AVAILABLE, db_error, job_created>>

\* cleanup_wav_file(job_id), called before the status is written.
cancel_job_cleanup ==
    /\ cancel.pc = "cleanup"
    /\ files' = cleanup_wav_file(files, jobs, cancel.job)
    /\ cancel' = [cancel EXCEPT !.pc = "persist"]
    /\ UNCHANGED <<jobs, next_id, requests, pc, active_job_processes, proc,
                   downloaded_files, existing, todo, transcription_jobs,
                   last_progress, input_path, audio_source, emitted,
                   output_lines, response, TRANSCRIPTION_AVAILABLE, db_error,
                   job_created>>

\* update_job_status(job_id, 'cancelled', 0): written whatever the status
\* has become since the SELECT.
cancel_job_persist ==
    /\ cancel.pc = "persist"
    /\ Persist(cancel.job, "cancelled", 0, "NULL", "NULL")
    /\ cancel' = [cancel EXCEPT !.pc = "idle"]
    /\ UNCHANGED <<next_id, requests, pc, active_job_processes, proc,
                   downloaded_files, existing, todo, transcription_jobs,
                   last_progress, input_path, audio_source, output_lines,
                   response, TRANSCRIPTION_AVAILABLE, db_error, job_created>>

\* ------------------------------------------------- run_transcription_job
\* The runner's progress_callback: update_job_status(job_id, 'running',
\* int(percent), message).  The current status is not read.
progress_callback(j, percent) ==
    Persist(j, "running", percent, "message", "NULL")

\* A runner that puts a failed job back in the queue and starts again.
run_transcription_job_retry(j) ==
    /\ Persist(j, "queued", 0, "NULL", "error")
    /\ audio_source' = [audio_source EXCEPT ![j] = "input"]
    /\ pc' = [pc EXCEPT ![j] = "tr_start"]

\* The runner's "except Exception" branch: status 'failed', progress 0; the
\* thread ends and its locals with it.
run_transcription_job_failed(j) ==
    /\ Persist(j, "failed", 0, "NULL", "error")
    /\ audio_source' = [audio_source EXCEPT ![j] = "input"]
    /\ pc' = [pc EXCEPT ![j] = "done"]

\* The first statement of the runner: status 'running', progress 5.  For a
\* file:// url the runner then calls transcribe_file when the library was
\* imported and builds the command line of the subprocess otherwise.
run_transcription_job_start(j) ==
    /\ pc[j] = "tr_start"
    /\ Persist(j, "running", 5, "message", "NULL")
    /\ pc' = [pc EXCEPT ![j] = IF TRANSCRIPTION_AVAILABLE THEN "tf_enter"
                               ELSE "sub_prepare"]
    /\ UNCHANGED <<next_id, requests, active_job_processes, proc,
                   downloaded_files, existing, todo, transcription_jobs,
                   last_progress, input_path, audio_source, cancel,
                   output_lines, response, TRANSCRIPTION_AVAILABLE, db_error,
                   job_created>>

\* transcribe_file up to preprocess_audio: with the .srt already on disk it
\* reports 100 and returns (output_path, 0); otherwise it reports 1.
transcribe_file_enter(j) ==
    /\ pc[j] = "tf_enter"
    /\ \/ /\ progress_callback(j, 100)
          /\ pc' = [pc EXCEPT ![j] = "tf_return"]
       \/ /\ progress_callback(j, 1)
          /\ pc' = [pc EXCEPT ![j] = "pre_enter"]
    /\ UNCHANGED <<next_id, requests, active_job_processes, proc,
                   downloaded_files, existing, todo, transcription_jobs,
                   last_progress, input_path, audio_source, cancel,
                   output_lines, response, TRANSCRIPTION_AVAILABLE, db_error,
                   job_created>>

\* preprocess_audio: returns at once when <base>_clean.wav is on disk;
\* otherwise Popen(ffmpeg), which starts writing the wav, and the entry
\* active_processes_dict[job_id] = process.  A Popen that raises is caught
\* and the raw input is used.
preprocess_audio_spawn(j) ==
    /\ pc[j] = "pre_enter"
    /\ LET wav == <<"wav", input_path[j]>> IN
         \/ /\ wav \in files
            /\ audio_source' = [audio_source EXCEPT ![j] = "wav"]
            /\ pc' = [pc EXCEPT ![j] = "tf_model"]
            /\ UNCHANGED <<active_job_processes, proc, files>>
         \/ /\ wav \notin files
            /\ proc' = [proc EXCEPT ![j] = "alive"]
            /\ active_job_processes' = active_job_processes \cup {j}
            /\ files' = files \cup {wav}
            /\ pc' = [pc EXCEPT ![j] = "pre_loop"]
            /\ UNCHANGED audio_source
         \/ /\ wav \notin files
            /\ pc' = [pc EXCEPT ![j] = "tf_model"]
            /\ UNCHANGED <<active_job_processes, proc, files, audio_source>>
    /\ UNCHANGED <<jobs, next_id, requests, downloaded_files, existing, todo,
                   transcription_jobs, last_progress, input_path, cancel,
                   emitted, output_lines, response, TRANSCRIPTION_AVAILABLE,
                   db_error, job_created>>

\* final_progress = 1 + int(progress_percent * 2 / 100)
final_progress(progress_percent) == 1 + (progress_percent * 2) \div 100

\* One line of ffmpeg output with time=...: a report in the range 1..3.
preprocess_audio_progress(j) ==
    /\ pc[j] = "pre_loop"
    /\ proc[j] = "alive"
    /\ \E pp \in ExtractPercents : progress_callback(j, final_progress(pp))
    /\ UNCHANGED <<next_id, requests, pc, active_job_processes, proc,
                   downloaded_files, existing, todo, transcription_jobs,
                   last_progress, input_path, audio_source, cancel,
                   output_lines, response, TRANSCRIPTION_AVAILABLE, db_error,
                   job_created>>

\* The spawned process enters an uninterruptible wait (a hung file system,
\* for example), in which it neither runs, nor ends, nor takes signals.
process_blocks(j) ==
    /\ proc[j] = "alive"
    /\ proc' = [proc EXCEPT ![j] = "blocked"]
    /\ UNCHANGED <<jobs, next_id, requests, pc, active_job_processes, files,
                   downloaded_files, existing, todo, transcription_jobs,
                   last_progress, input_path, audio_source, cancel, emitted,
                   output_lines, response, TRANSCRIPTION_AVAILABLE, db_error,
                   job_created>>

\* The spawned ffmpeg ends on its own, with return code 0 or not.
process_exit(j) ==
    /\ proc[j] = "alive"
    /\ \E rc \in {"exit0", "exit1"} : proc' = [proc EXCEPT ![j] = rc]
    /\ UNCHANGED <<jobs, next_id, requests, pc, active_job_processes, files,
                   downloaded_files, existing, todo, transcription_jobs,
                   last_progress, input_path, audio_source, cancel, emitted,
                   output_lines, response, TRANSCRIPTION_AVAILABLE, db_error,
                   job_created>>

\* End of "for line in process.stdout": process.wait(), pop the registry
\* entry, and return the wav (return code 0) or the raw input (any other
\* return code, a killed process included).  transcribe_file goes on; the
\* return code is not read again.
preprocess_audio_wait(j) ==
    /\ pc[j] = "pre_loop"
    /\ proc[j] \notin Live
    /\ active_job_processes' = active_job_processes \ {j}
    /\ audio_source' = [audio_source EXCEPT ![j] =
          IF proc[j] = "exit0" /\ <<"wav", input_path[j]>> \in files
          THEN "wav" ELSE "input"]
    /\ proc' = [proc EXCEPT ![j] = "none"]
    /\ pc' = [pc EXCEPT ![j] = "tf_model"]
    /\ UNCHANGED <<jobs, next_id, requests, files, downloaded_files, existing,
                   todo, transcription_jobs, last_progress, input_path,
                   cancel, emitted, output_lines, response,
                   TRANSCRIPTION_AVAILABLE, db_error, job_created>>

\* progress_callback(4, "Loading model ...")
transcribe_file_model(j) ==
    /\ pc[j] = "tf_model"
    /\ progress_callback(j, 4)
    /\ pc' = [pc EXCEPT ![j] = "tf_load"]
    /\ UNCHANGED <<next_id, requests, active_job_processes, proc,
                   downloaded_files, existing, todo, transcription_jobs,
                   last_progress, input_path, audio_source, cancel,
                   output_lines, response, TRANSCRIPTION_AVAILABLE, db_error,
                   job_created>>

\* WhisperModel(...) loads and 5 is reported, or it raises RuntimeError.
transcribe_file_load(j) ==
    /\ pc[j] = "tf_load"
    /\ \/ /\ progress_callback(j, 5)
          /\ pc' = [pc EXCEPT ![j] = "tf_transcribe"]
          /\ UNCHANGED audio_source
       \/ run_transcription_job_failed(j)
    /\ UNCHANGED <<next_id, requests, active_job_processes, proc,
                   downloaded_files, existing, todo, transcription_jobs,
                   last_progress, input_path, cancel, output_lines, response,
                   TRANSCRIPTION_AVAILABLE, db_error, job_created>>

\* model.transcribe(...) returns and 8 is reported, or it raises.
transcribe_file_transcribe(j) ==
    /\ pc[j] = "tf_transcribe"
    /\ \/ /\ progress_callback(j, 8)
          /\ pc' = [pc EXCEPT ![j] = "tf_write"]
          /\ UNCHANGED audio_source
       \/ run_transcription_job_failed(j)
    /\ UNCHANGED <<next_id, requests, active_job_processes, proc,
                   downloaded_files, existing, todo, transcription_jobs,
                   last_progress, input_path, cancel, output_lines, response,
                   TRANSCRIPTION_AVAILABLE, db_error, job_created>>

\* progress_callback(10, "Processing and writing segments..."), with
\* last_progress_update = 0 at the head of the segment loop.
transcribe_file_write(j) ==
    /\ pc[j] = "tf_write"
    /\ progress_callback(j, 10)
    /\ last_progress' = [last_progress EXCEPT ![j] = 0]
    /\ pc' = [pc EXCEPT ![j] = "tf_segments"]
    /\ UNCHANGED <<next_id, requests, active_job_processes, proc,
                   downloaded_files, existing, todo, transcription_jobs,
                   input_path, audio_source, cancel, output_lines, response,
                   TRANSCRIPTION_AVAILABLE, db_error, job_created>>

\* Every tenth segment: a report when progress > last_progress_update.
transcribe_file_segment(j) ==
    /\ pc[j] = "tf_segments"
    /\ \E progress \in SegmentPercents :
          /\ progress > last_progress[j]
          /\ progress_callback(j, progress)
          /\ last_progress' = [last_progress EXCEPT ![j] = progress]
    /\ UNCHANGED <<next_id, requests, pc, active_job_processes, proc,
                   downloaded_files, existing, todo, transcription_jobs,
                   input_path, audio_source, cancel, output_lines, response,
                   TRANSCRIPTION_AVAILABLE, db_error, job_created>>

\* The loop ends: 95 is reported; an IOError raises RuntimeError instead.
transcribe_file_finalize(j) ==
    /\ pc[j] = "tf_segments"
    /\ \/ /\ progress_callback(j, 95)
          /\ pc' = [pc EXCEPT ![j] = "tf_final"]
          /\ UNCHANGED audio_source
       \/ run_transcription_job_failed(j)
    /\ last_progress' = [last_progress EXCEPT ![j] = 0]
    /\ UNCHANGED <<next_id, requests, active_job_processes, proc,
                   downloaded_files, existing, todo, transcription_jobs,
                   input_path, cancel, output_lines, response,
                   TRANSCRIPTION_AVAILABLE, db_error, job_created>>

\* "Cleanup temporary audio": os.remove(audio_source); then 100 is reported.
transcribe_file_done(j) ==
    /\ pc[j] = "tf_final"
    /\ jobs' = update_job_status(jobs, j, "running", 100, "message", "NULL")
    /\ emitted' = [emitted EXCEPT
                      ![j] = job_update("running", 100, "message", "NULL")]
    /\ files' = IF audio_source[j] = "wav"
                THEN files \ {<<"wav", input_path[j]>>} ELSE files
    /\ audio_source' = [audio_source EXCEPT ![j] = "input"]
    /\ pc' = [pc EXCEPT ![j] = "tf_return"]
    /\ UNCHANGED <<next_id, requests, active_job_processes, proc,
                   downloaded_files, existing, todo, transcription_jobs,
                   last_progress, input_path, cancel, output_lines, response,
                   TRANSCRIPTION_AVAILABLE, db_error, job_created>>

\* transcribe_file returned: status 'completed', progress 100.
run_transcription_job_completed(j) ==
    /\ pc[j] = "tf_return"
    /\ Persist(j, "completed", 100, "result", "NULL")
    /\ pc' = [pc EXCEPT ![j] = "done"]
    /\ UNCHANGED <<next_id, requests, active_job_processes, proc,
                   downloaded_files, existing, todo, transcription_jobs,
                   last_progress, input_path, audio_source, cancel,
                   output_lines, response, TRANSCRIPTION_AVAILABLE, db_error,
                   job_created>>

\* ------------------------------------------------------ transcode_to_mp4
\* transcode_to_mp4: rejected when the .mp4 exists; otherwise INSERT a
\* transcode job with url transcode://<path> and start run_transcode_job.
\* An INSERT that raises is answered 500 and leaves nothing behind.
transcode_to_mp4(p) ==
    /\ ~db_error
    /\ next_id < MaxJobs
    /\ requests < MaxRequests
    /\ <<"mp4", p>> \notin files
    /\ requests' = requests + 1
    /\ next_id' = next_id + 1
    /\ jobs' = InsertRow(jobs, next_id + 1,
                 NewRow([scheme |-> "transcode", path |-> p], "transcode",
                        Parameters("absent"), NULL, NULL))
    /\ pc' = [pc EXCEPT ![next_id + 1] = "tc_start"]
    /\ input_path' = [input_path EXCEPT ![next_id + 1] = p]
    /\ job_created' = job_created \cup ((next_id + 1)..next_id')
    /\ UNCHANGED <<active_job_processes, proc, files, downloaded_files,
                   existing, todo, transcription_jobs, last_progress,
                   audio_source, cancel, emitted, output_lines, response,
                   TRANSCRIPTION_AVAILABLE, db_error>>

\* ----------------------------------------------------- run_transcode_job
\* "ffmpeg -version" fails: status 'failed' straight away; otherwise the
\* first write, status 'running', progress 5.
run_transcode_job_start(j) ==
    /\ pc[j] = "tc_start"
    /\ \/ /\ Persist(j, "failed", 0, "NULL", "error")
          /\ pc' = [pc EXCEPT ![j] = "done"]
       \/ /\ Persist(j, "running", 5, "message", "NULL")
          /\ pc' = [pc EXCEPT ![j] = "tc_probe"]
    /\ UNCHANGED <<next_id, requests, active_job_processes, proc,
                   downloaded_files, existing, todo, transcription_jobs,
                   last_progress, input_path, audio_source, cancel,
                   output_lines, response, TRANSCRIPTION_AVAILABLE, db_error,
                   job_created>>

\* After ffprobe: status 'running', progress 10.
run_transcode_job_probe(j) ==
    /\ pc[j] = "tc_probe"
    /\ Persist(j, "running", 10, "message", "NULL")
    /\ pc' = [pc EXCEPT ![j] = "tc_spawn"]
    /\ UNCHANGED <<next_id, requests, active_job_processes, proc,
                   downloaded_files, existing, todo, transcription_jobs,
                   last_progress, input_path, audio_source, cancel,
                   output_lines, response, TRANSCRIPTION_AVAILABLE, db_error,
                   job_created>>

\* Popen(ffmpeg -y ... output_path): the output file comes into being, the
\* process is registered, last_progress = 10.  A Popen that raises ends in
\* the outer except: status 'failed', progress 0.
run_transcode_job_spawn(j) ==
    /\ pc[j] = "tc_spawn"
    /\ \/ /\ proc' = [proc EXCEPT ![j] = "alive"]
          /\ active_job_processes' = active_job_processes \cup {j}
          /\ files' = files \cup {<<"mp4", input_path[j]>>}
          /\ last_progress' = [last_progress EXCEPT ![j] = 10]
          /\ pc' = [pc EXCEPT ![j] = "tc_loop"]
          /\ UNCHANGED <<jobs, emitted>>
       \/ /\ Persist(j, "failed", 0, "NULL", "error")
          /\ pc' = [pc EXCEPT ![j] = "done"]
          /\ UNCHANGED <<active_job_processes, proc, last_progress>>
    /\ UNCHANGED <<next_id, requests, downloaded_files, existing, todo,
                   transcription_jobs, input_path, audio_source, cancel,
                   output_lines, response, TRANSCRIPTION_AVAILABLE, db_error,
                   job_created>>

\* progress = int(10 + progress_pct * 0.85)
transcode_progress(progress_pct) == 10 + (progress_pct * 85) \div 100

\* One line of ffmpeg output: SELECT status; on 'cancelled' the runner
\* terminates ffmpeg and leaves the loop; otherwise it reports the progress
\* when it is larger than last_progress.  A SELECT that raises leaves the
\* try block for the outer "except Exception".
run_transcode_job_line(j) ==
    /\ pc[j] = "tc_loop"
    /\ proc[j] = "alive"
    /\ IF db_error
       THEN /\ pc' = [pc EXCEPT ![j] = "tc_except"]
            /\ UNCHANGED <<jobs, files, last_progress, emitted, proc>>
       ELSE IF j \in DOMAIN jobs /\ jobs[j].status = "cancelled"
       THEN /\ proc' = [proc EXCEPT ![j] = "terminated"]
            /\ UNCHANGED <<jobs, files, last_progress, emitted, pc>>
       ELSE /\ \E pct \in TranscodePercents :
                 /\ transcode_progress(pct) > last_progress[j]
                 /\ Persist(j, "running", transcode_progress(pct),
                            "message", "NULL")
                 /\ last_progress' =
                       [last_progress EXCEPT ![j] = transcode_progress(pct)]
            /\ UNCHANGED <<proc, pc>>
    /\ UNCHANGED <<next_id, requests, active_job_processes,
                   downloaded_files, existing, todo, transcription_jobs,
                   input_path, audio_source, cancel, output_lines, response,
                   TRANSCRIPTION_AVAILABLE, db_error, job_created>>

\* The output ended: process.wait() and active_job_processes.pop(job_id).
run_transcode_job_wait(j) ==
    /\ pc[j] = "tc_loop"
    /\ proc[j] \notin Live
    /\ active_job_processes' = active_job_processes \ {j}
    /\ pc' = [pc EXCEPT ![j] = "tc_result"]
    /\ UNCHANGED <<jobs, next_id, requests, proc, files, downloaded_files,
                   existing, todo, transcription_jobs, last_progress,
                   input_path, audio_source, cancel, emitted, output_lines,
                   response, TRANSCRIPTION_AVAILABLE, db_error, job_created>>

\* The outer "except Exception" of run_transcode_job, entered from the
\* output loop: status 'failed', progress 0.  The handler neither waits
\* for the process nor removes it from active_job_processes; the thread
\* ends and its locals with it.
run_transcode_job_except(j) ==
    /\ pc[j] = "tc_except"
    /\ Persist(j, "failed", 0, "NULL", "error")
    /\ last_progress' = [last_progress EXCEPT ![j] = 0]
    /\ pc' = [pc EXCEPT ![j] = "done"]
    /\ UNCHANGED <<next_id, requests, active_job_processes, proc,
                   downloaded_files, existing, todo, transcription_jobs,
                   input_path, audio_source, cancel, output_lines, response,
                   TRANSCRIPTION_AVAILABLE, db_error, job_created>>

\* A run_transcode_job that returns after the wait without a last write.
run_transcode_job_result_silent(j) ==
    /\ pc[j] = "tc_result"
    /\ proc' = [proc EXCEPT ![j] = "none"]
    /\ last_progress' = [last_progress EXCEPT ![j] = 0]
    /\ pc' = [pc EXCEPT ![j] = "done"]
    /\ UNCHANGED <<jobs, files, emitted, next_id, requests,
                   active_job_processes, downloaded_files, existing, todo,
                   transcription_jobs, input_path, audio_source, cancel,
                   output_lines, response, TRANSCRIPTION_AVAILABLE, db_error,
                   job_created>>

\* "if process.returncode == 0": status 'completed', progress 100;
\* otherwise status 'failed' with progress last_progress.  The status the
\* row has at this point is not read.
run_transcode_job_result(j) ==
    /\ pc[j] = "tc_result"
    /\ IF proc[j] = "exit0"
       THEN Persist(j, "completed", 100, "result", "NULL")
       ELSE Persist(j, "failed", last_progress[j], "NULL", "error")
    /\ proc' = [proc EXCEPT ![j] = "none"]
    /\ last_progress' = [last_progress EXCEPT ![j] = 0]
    /\ pc' = [pc EXCEPT ![j] = "done"]
    /\ UNCHANGED <<next_id, requests, active_job_processes, downloaded_files,
                   existing, todo, transcription_jobs, input_path,
                   audio_source, cancel, output_lines, response,
                   TRANSCRIPTION_AVAILABLE, db_error, job_created>>

\* --------------------------------- create_transcription_from_download
\* The paths of a set, in path order (the order of the directory walk).
RECURSIVE InOrder(_)
InOrder(S) ==
    IF S = {} THEN <<>>
    ELSE LET m == CHOOSE x \in S : \A y \in S : x <= y
         IN <<m>> \o InOrder(S \ {m})

\* The rows the handler INSERTs: one create_transcription_job per scanned
\* video file, each with a new id.
RECURSIVE CreateAll(_, _, _, _)
CreateAll(js, first_id, parent_job_id, video_files) ==
    IF video_files = <<>> THEN js
    ELSE CreateAll(create_transcription_job(js, first_id, parent_job_id,
                                            Head(video_files)),
                   first_id + 1, parent_job_id, Tail(video_files))

\* The handler: the job must be a download job with status 'completed';
\* every video file of the download directory modified within the last
\* hour gets a transcription job.
create_transcription_from_download(j) ==
    /\ j \in DOMAIN jobs
    /\ jobs[j].job_type = "download"
    /\ jobs[j].status = "completed"
    /\ \E found \in (SUBSET Paths) \ {{}} :
         LET video_files == InOrder(found)
             n == Len(video_files) IN
          /\ next_id + n <= MaxJobs
          /\ next_id' = next_id + n
          /\ jobs' = CreateAll(jobs, next_id + 1, j, video_files)
          /\ pc' = [k \in JobIds |->
                      IF k \in (next_id + 1)..(next_id + n)
                      THEN "tr_start" ELSE pc[k]]
          /\ input_path' = [k \in JobIds |->
                      IF k \in (next_id + 1)..(next_id + n)
                      THEN video_files[k - next_id] ELSE input_path[k]]
    /\ job_created' = job_created \cup ((next_id + 1)..next_id')
    /\ UNCHANGED <<requests, active_job_processes, proc, files,
                   downloaded_files, existing, todo, transcription_jobs,
                   last_progress, audio_source, cancel, emitted, output_lines,
                   response, TRANSCRIPTION_AVAILABLE, db_error>>

\* --------------------------- run_transcription_job, subprocess fallback
\* '\n'.join(output_lines[-20:]): the empty string when no line was read.
join(lines) == IF lines = 0 THEN "" ELSE "output"

\* "Update progress before starting": status 'running', progress 10.
run_transcription_job_prepare(j) ==
    /\ pc[j] = "sub_prepare"
    /\ Persist(j, "running", 10, "message", "NULL")
    /\ pc' = [pc EXCEPT ![j] = "sub_popen"]
    /\ UNCHANGED <<next_id, requests, active_job_processes, proc,
                   downloaded_files, existing, todo, transcription_jobs,
                   last_progress, input_path, audio_source, cancel,
                   output_lines, response, TRANSCRIPTION_AVAILABLE, db_error,
                   job_created>>

\* subprocess.Popen(cmd), output_lines = [], last_progress = 0.  The process
\* is not entered in active_job_processes.  A Popen that raises ends in the
\* "except Exception" branch: status 'failed' with the traceback as error.
run_transcription_job_popen(j) ==
    /\ pc[j] = "sub_popen"
    /\ \/ /\ proc' = [proc EXCEPT ![j] = "alive"]
          /\ output_lines' = [output_lines EXCEPT ![j] = 0]
          /\ last_progress' = [last_progress EXCEPT ![j] = 0]
          /\ pc' = [pc EXCEPT ![j] = "sub_loop"]
          /\ UNCHANGED <<jobs, files, emitted>>
       \/ /\ Persist(j, "failed", 0, "NULL", "error")
          /\ pc' = [pc EXCEPT ![j] = "done"]
          /\ UNCHANGED <<proc, output_lines, last_progress>>
    /\ UNCHANGED <<next_id, requests, active_job_processes,
                   downloaded_files, existing, todo, transcription_jobs,
                   input_path, audio_source, cancel, response,
                   TRANSCRIPTION_AVAILABLE, db_error, job_created>>

\* One pass of "for line in process.stdout": the line is appended to
\* output_lines.  Pattern 1: a line with a "[current/total]" marker reports
\* int((current / total) * 100) as it is.  Pattern 2: a line with a
\* milestone keyword reports the milestone when last_progress is below it
\* (milestone 0: a line without keyword).  The periodic report needs 20
\* lines and is beyond MaxLines.
run_transcription_job_line(j) ==
    /\ pc[j] = "sub_loop"
    /\ proc[j] = "alive"
    /\ output_lines[j] < MaxLines
    /\ output_lines' = [output_lines EXCEPT ![j] = @ + 1]
    /\ \E line \in OutputLines :
          LET progress == IF line.pattern = 1
                          THEN (line.current * 100) \div line.total
                          ELSE line.milestone
          IN  IF line.pattern = 1 \/ last_progress[j] < progress
              THEN /\ Persist(j, "running", progress, "message", "NULL")
                   /\ last_progress' = [last_progress EXCEPT ![j] = progress]
              ELSE UNCHANGED <<jobs, files, emitted, last_progress>>
    /\ UNCHANGED <<next_id, requests, pc, active_job_processes, proc,
                   downloaded_files, existing, todo, transcription_jobs,
                   input_path, audio_source, cancel, response,
                   TRANSCRIPTION_AVAILABLE, db_error, job_created>>

\* The output ended: process.wait(); return code 0 gives status
\* 'completed', progress 100 with the joined output as result; any other
\* return code gives status 'failed', progress 0 with the joined output as
\* error.  The thread ends and its locals with it.
run_transcription_job_result(j) ==
    /\ pc[j] = "sub_loop"
    /\ proc[j] \notin Live
    /\ IF proc[j] = "exit0"
       THEN Persist(j, "completed", 100, join(output_lines[j]), "NULL")
       ELSE Persist(j, "failed", 0, "NULL", join(output_lines[j]))
    /\ proc' = [proc EXCEPT ![j] = "none"]
    /\ output_lines' = [output_lines EXCEPT ![j] = 0]
    /\ last_progress' = [last_progress EXCEPT ![j] = 0]
    /\ pc' = [pc EXCEPT ![j] = "done"]
    /\ UNCHANGED <<next_id, requests, active_job_processes, downloaded_files,
                   existing, todo, transcription_jobs, input_path,
                   audio_source, cancel, response, TRANSCRIPTION_AVAILABLE,
                   db_error, job_created>>

\* ------------------------------------------ generate_subtitles_endpoint
\* INSERT a transcribe job for file://<path> whose parameters hold the
\* transcription settings and no video_title; start run_transcription_job.
generate_subtitles_endpoint(p) ==
    /\ next_id < MaxJobs
    /\ requests < MaxRequests
    /\ requests' = requests + 1
    /\ next_id' = next_id + 1
    /\ jobs' = InsertRow(jobs, next_id + 1,
                 NewRow([scheme |-> "file", path |-> p], "transcribe",
                        Parameters("absent"), NULL, NULL))
    /\ pc' = [pc EXCEPT ![next_id + 1] = "tr_start"]
    /\ input_path' = [input_path EXCEPT ![next_id + 1] = p]
    /\ job_created' = job_created \cup ((next_id + 1)..next_id')
    /\ UNCHANGED <<active_job_processes, proc, files, downloaded_files,
                   existing, todo, transcription_jobs, last_progress,
                   audio_source, cancel, emitted, output_lines, response,
                   TRANSCRIPTION_AVAILABLE, db_error>>

\* ------------------------------------------------- rejected cancel_job
\* A cancel_job that answers 400 or 404 and writes 'cancelled' all the same.
cancel_job_rejected_persist(j) ==
    /\ IF j \in DOMAIN jobs
       THEN /\ jobs[j].status \notin {"queued", "running"}
            /\ response' = [handler |-> "cancel_job", job |-> j,
                            code |-> 400, new_job_id |-> NULL]
       ELSE response' = [handler |-> "cancel_job", job |-> j,
                         code |-> 404, new_job_id |-> NULL]
    /\ Persist(j, "cancelled", 0, "NULL", "NULL")
    /\ UNCHANGED <<next_id, requests, pc, active_job_processes, proc,
                   downloaded_files, existing, todo, transcription_jobs,
                   last_progress, input_path, audio_source, cancel,
                   output_lines, TRANSCRIPTION_AVAILABLE, db_error,
                   job_created>>

\* cancel_job for an id without row (404) or for a row whose status is not
\* 'queued' or 'running' (400): the request returns after its SELECT.
cancel_job_rejected(j) ==
    /\ IF j \in DOMAIN jobs
       THEN /\ jobs[j].status \notin {"queued", "running"}
            /\ response' = [handler |-> "cancel_job", job |-> j,
                            code |-> 400, new_job_id |-> NULL]
       ELSE response' = [handler |-> "cancel_job", job |-> j,
                         code |-> 404, new_job_id |-> NULL]
    /\ UNCHANGED <<jobs, next_id, requests, pc, active_job_processes, proc,
                   files, downloaded_files, existing, todo,
                   transcription_jobs, last_progress, input_path,
                   audio_source, cancel, emitted, output_lines,
                   TRANSCRIPTION_AVAILABLE, db_error, job_created>>

\* ------------------------------------------------------------ delete_job
\* A delete_job that removes finished jobs only and answers as delete_job.
delete_job_finished(j) ==
    /\ jobs' = IF j \in DOMAIN jobs /\ jobs[j].status \in Terminal
               THEN DeleteRow(jobs, j) ELSE jobs
    /\ response' = [handler |-> "delete_job", job |-> j,
                    code |-> IF j \in DOMAIN jobs THEN 200 ELSE 404,
                    new_job_id |-> NULL]
    /\ UNCHANGED <<next_id, requests, pc, active_job_processes, proc, files,
                   downloaded_files, existing, todo, transcription_jobs,
                   last_progress, input_path, audio_source, cancel, emitted,
                   output_lines, TRANSCRIPTION_AVAILABLE, db_error,
                   job_created>>

\* DELETE FROM jobs WHERE id = ?; rowcount 0 is answered 404.  Neither the
\* status nor the job's thread is looked at.
delete_job(j) ==
    /\ jobs' = DeleteRow(jobs, j)
    /\ response' = [handler |-> "delete_job", job |-> j,
                    code |-> IF j \in DOMAIN jobs THEN 200 ELSE 404,
                    new_job_id |-> NULL]
    /\ UNCHANGED <<next_id, requests, pc, active_job_processes, proc, files,
                   downloaded_files, existing, todo, transcription_jobs,
                   last_progress, input_path, audio_source, cancel, emitted,
                   output_lines, TRANSCRIPTION_AVAILABLE, db_error,
                   job_created>>

\* ------------------------------------------------------------ clear_jobs
\* The status lists that clear requests carry: the default, and the list
\* of a client that clears the jobs shown as active.
ClearRequests == {{"completed", "failed"}, {"cancelled"},
                  {"queued", "running"}}

\* DELETE FROM jobs WHERE status IN (statuses), statuses taken from the
\* request body as they come.
clear_jobs(statuses) ==
    /\ jobs' = [k \in {i \in DOMAIN jobs : jobs[i].status \notin statuses}
                 |-> jobs[k]]
    /\ response' = [handler |-> "clear_jobs", job |-> NULL, code |-> 200,
                    new_job_id |-> NULL]
    /\ UNCHANGED <<next_id, requests, pc, active_job_processes, proc, files,
                   downloaded_files, existing, todo, transcription_jobs,
                   last_progress, input_path, audio_source, cancel, emitted,
                   output_lines, TRANSCRIPTION_AVAILABLE, db_error,
                   job_created>>

\* ----------------------------------------------------------- restart_job
\* The parameters restart_job stores: those of the original, with a
\* video_title taken from the file name when the original has none (or
\* 'Unknown Video') and its url is a file:// url.
restart_parameters(job) ==
    IF /\ job.parameters.video_title \in {"absent", "Unknown Video"}
       /\ job.url.scheme = "file"
    THEN [job.parameters EXCEPT !.video_title = "basename"]
    ELSE job.parameters

\* The runner restart_job starts, by job_type.
restart_target(job_type) ==
    CASE job_type = "download" -> "dl_start"
      [] job_type = "transcode" -> "tc_start"
      [] OTHER -> "tr_start"

\* A restart_job that also puts the original row back to 'queued'.
restart_job_requeue(j) ==
    IF j \notin DOMAIN jobs
    THEN /\ response' = [handler |-> "restart_job", job |-> j,
                         code |-> 404, new_job_id |-> NULL]
         /\ UNCHANGED <<jobs, next_id, requests, pc, active_job_processes,
                        proc, files, downloaded_files, existing, todo,
                        transcription_jobs, last_progress, input_path,
                        audio_source, cancel, emitted, output_lines,
                        TRANSCRIPTION_AVAILABLE, db_error, job_created>>
    ELSE /\ next_id < MaxJobs
         /\ next_id - requests < MaxRestarts
         /\ next_id' = next_id + 1
         /\ jobs' = InsertRow(
                      update_job_status(jobs, j, "queued", 0, "NULL", "NULL"),
                      next_id + 1,
                      NewRow(jobs[j].url, jobs[j].job_type,
                             restart_parameters(jobs[j]), NULL, NULL))
         /\ pc' = [pc EXCEPT
                     ![next_id + 1] = restart_target(jobs[j].job_type)]
         /\ input_path' = [input_path EXCEPT
                             ![next_id + 1] = jobs[j].url.path]
         /\ response' = [handler |-> "restart_job", job |-> j,
                         code |-> 200, new_job_id |-> next_id + 1]
         /\ job_created' = job_created \cup ((next_id + 1)..next_id')
         /\ UNCHANGED <<requests, active_job_processes, proc, files,
                        downloaded_files, existing, todo,
                        transcription_jobs, last_progress, audio_source,
                        cancel, emitted, output_lines,
                        TRANSCRIPTION_AVAILABLE, db_error>>

\* restart_job: 404 without row; otherwise INSERT a row with a new uuid,
\* the url and job_type of the original, status 'queued' and the
\* parameters above (no parent_job_id, no video_path), and start the
\* runner of the job_type.  The original row is only read.  (next_id -
\* requests counts the rows that restart_job has inserted.)
restart_job(j) ==
    IF j \notin DOMAIN jobs
    THEN /\ response' = [handler |-> "restart_job", job |-> j,
                         code |-> 404, new_job_id |-> NULL]
         /\ UNCHANGED <<jobs, next_id, requests, pc, active_job_processes,
                        proc, files, downloaded_files, existing, todo,
                        transcription_jobs, last_progress, input_path,
                        audio_source, cancel, emitted, output_lines,
                        TRANSCRIPTION_AVAILABLE, db_error, job_created>>
    ELSE /\ next_id < MaxJobs
         /\ next_id - requests < MaxRestarts
         /\ next_id' = next_id + 1
         /\ jobs' = InsertRow(jobs, next_id + 1,
                      NewRow(jobs[j].url, jobs[j].job_type,
                             restart_parameters(jobs[j]), NULL, NULL))
         /\ pc' = [pc EXCEPT
                     ![next_id + 1] = restart_target(jobs[j].job_type)]
         /\ input_path' = [input_path EXCEPT
                             ![next_id + 1] = jobs[j].url.path]
         /\ response' = [handler |-> "restart_job", job |-> j,
                         code |-> 200, new_job_id |-> next_id + 1]
         /\ job_created' = job_created \cup ((next_id + 1)..next_id')
         /\ UNCHANGED <<requests, active_job_processes, proc, files,
                        downloaded_files, existing, todo,
                        transcription_jobs, last_progress, audio_source,
                        cancel, emitted, output_lines,
                        TRANSCRIPTION_AVAILABLE, db_error>>

Next ==
    \/ submit_job_youtube
    \/ \E p \in Paths : submit_job_file(p)
    \/ \E j \in JobIds : run_download_job_start(j)
    \/ \E j \in JobIds : progress_hook(j)
    \/ \E j \in JobIds : run_download_job_extracted(j)
    \/ \E j \in JobIds : run_download_job_child(j)
    \/ \E j \in JobIds : run_download_job_completed(j)
    \/ \E j \in JobIds : run_download_job_failed(j)
    \/ \E j \in JobIds : cancel_job_check(j)
    \/ cancel_job_kill
    \/ cancel_job_cleanup
    \/ cancel_job_persist
    \/ \E j \in JobIds : run_transcription_job_start(j)
    \/ \E j \in JobIds : transcribe_file_enter(j)
    \/ \E j \in JobIds : preprocess_audio_spawn(j)
    \/ \E j \in JobIds : preprocess_audio_progress(j)
    \/ \E j \in JobIds : process_exit(j)
    \/ \E j \in JobIds : preprocess_audio_wait(j)
    \/ \E j \in JobIds : transcribe_file_model(j)
    \/ \E j \in JobIds : transcribe_file_load(j)
    \/ \E j \in JobIds : transcribe_file_transcribe(j)
    \/ \E j \in JobIds : transcribe_file_write(j)
    \/ \E j \in JobIds : transcribe_file_segment(j)
    \/ \E j \in JobIds : transcribe_file_finalize(j)
    \/ \E j \in JobIds : transcribe_file_done(j)
    \/ \E j \in JobIds : run_transcription_job_completed(j)
    \/ \E p \in Paths : transcode_to_mp4(p)
    \/ \E j \in JobIds : run_transcode_job_start(j)
    \/ \E j \in JobIds : run_transcode_job_probe(j)
    \/ \E j \in JobIds : run_transcode_job_spawn(j)
    \/ \E j \in JobIds : run_transcode_job_line(j)
    \/ \E j \in JobIds : run_transcode_job_wait(j)
    \/ \E j \in JobIds : run_transcode_job_result(j)
    \/ \E j \in JobIds : create_transcription_from_download(j)

Spec == Init /\ [][Next]_vars

\* ------------------------------------- deployment without the library
\* The deployment in which "from faster_whisper_latin import ..." failed:
\* transcription runs in the subprocess.  Its requests are those of job
\* management for file jobs: submission, subtitle generation, cancel,
\* delete and restart.
InitAdmin ==
    /\ jobs = <<>>
    /\ next_id = 0
    /\ requests = 0
    /\ pc = [j \in JobIds |-> "none"]
    /\ active_job_processes = {}
    /\ proc = [j \in JobIds |-> "none"]
    /\ files = {}
    /\ downloaded_files = [j \in JobIds |-> <<>>]
    /\ existing = [j \in JobIds |-> {}]
    /\ todo = [j \in JobIds |-> <<>>]
    /\ transcription_jobs = [j \in JobIds |-> <<>>]
    /\ last_progress = [j \in JobIds |-> 0]
    /\ input_path = [j \in JobIds |-> NULL]
    /\ audio_source = [j \in JobIds |-> "input"]
    /\ cancel = [job |-> NULL, pc |-> "idle", status |-> "none",
                 killed |-> FALSE]
    /\ emitted = [j \in JobIds |-> NoEvent]
    /\ output_lines = [j \in JobIds |-> 0]
    /\ response = NoResponse
    /\ TRANSCRIPTION_AVAILABLE = FALSE
    /\ db_error = FALSE
    /\ job_created = {}

NextAdmin ==
    \/ \E p \in Paths : submit_job_file(p)
    \/ \E p \in Paths : generate_subtitles_endpoint(p)
    \/ \E j \in JobIds : run_transcription_job_start(j)
    \/ \E j \in JobIds : run_transcription_job_prepare(j)
    \/ \E j \in JobIds : run_transcription_job_popen(j)
    \/ \E j \in JobIds : run_transcription_job_line(j)
    \/ \E j \in JobIds : process_exit(j)
    \/ \E j \in JobIds : run_transcription_job_result(j)
    \/ \E j \in JobIds : cancel_job_check(j)
    \/ cancel_job_kill
    \/ cancel_job_cleanup
    \/ cancel_job_persist
    \/ \E j \in JobIds : delete_job(j)
    \/ \E j \in JobIds : restart_job(j)

SpecAdmin == InitAdmin /\ [][NextAdmin]_vars

\* ------------------------------------ cancel requests and the registry
\* Transcode jobs, whose ffmpeg is entered in active_job_processes, with
\* accepted and rejected cancel requests.
NextCancel ==
    \/ \E p \in Paths : transcode_to_mp4(p)
    \/ \E j \in JobIds : run_transcode_job_start(j)
    \/ \E j \in JobIds : run_transcode_job_probe(j)
    \/ \E j \in JobIds : run_transcode_job_spawn(j)
    \/ \E j \in JobIds : run_transcode_job_line(j)
    \/ \E j \in JobIds : process_exit(j)
    \/ \E j \in JobIds : process_blocks(j)
    \/ \E j \in JobIds : run_transcode_job_wait(j)
    \/ \E j \in JobIds : run_transcode_job_result(j)
    \/ \E j \in JobIds : cancel_job_check(j)
    \/ cancel_job_kill
    \/ cancel_job_cleanup
    \/ cancel_job_persist
    \/ \E j \in JobIds : cancel_job_rejected(j)
    \/ \E j \in JobIds : restart_job(j)

SpecCancel == Init /\ [][NextCancel]_vars

\* ------------------------------------ downloads and deletion of jobs
\* The deployment without the library: download jobs, the transcription
\* jobs they create, and delete_job requests.
NextDownload ==
    \/ submit_job_youtube
    \/ \E reason \in Rejections, p \in Paths \cup {NULL} :
          submit_job_rejected(reason, p)
    \/ \E j \in JobIds : run_download_job_start(j)
    \/ \E j \in JobIds : progress_hook(j)
    \/ \E j \in JobIds : run_download_job_extracted(j)
    \/ \E j \in JobIds : run_download_job_child(j)
    \/ \E j \in JobIds : run_download_job_completed(j)
    \/ \E j \in JobIds : run_download_job_failed(j)
    \/ \E j \in JobIds : run_transcription_job_start(j)
    \/ \E j \in JobIds : run_transcription_job_prepare(j)
    \/ \E j \in JobIds : run_transcription_job_popen(j)
    \/ \E j \in JobIds : run_transcription_job_line(j)
    \/ \E j \in JobIds : process_exit(j)
    \/ \E j \in JobIds : run_transcription_job_result(j)
    \/ \E j \in JobIds : delete_job(j)
    \/ \E statuses \in ClearRequests : clear_jobs(statuses)

SpecDownload == InitAdmin /\ [][NextDownload]_vars

\* ------------------------------------------------------------ properties
\* The rows that a step neither inserts nor deletes.
Kept == (DOMAIN jobs) \cap (DOMAIN jobs')

\* The positions of a runner thread that has been started and has not run
\* its first statement.
StartPositions == {"dl_start", "tr_start", "tc_start"}

\* A cancel_job request for job j that read status 'running' is in flight.
Cancelling(j) ==
    cancel.job = j /\ cancel.status = "running" /\ cancel.pc # "idle"

\* The latest cancel_job request was for job j, read status 'running' and
\* has returned.
CancelledRunning(j) ==
    cancel.job = j /\ cancel.status = "running" /\ cancel.pc = "idle"

\* C1: for every job and every interleaving of runner updates and cancel
\* requests, a write never moves the status back to an earlier state of
\* Queued -> Running -> {Completed, Failed, Cancelled}, and never changes a
\* status that is Completed, Failed or Cancelled.
C1_StatusNeverRegresses ==
    [][\A j \in Kept :
          \/ jobs'[j].status = jobs[j].status
          \/ jobs[j].status = "queued"
          \/ jobs[j].status = "running" /\ jobs'[j].status \in Terminal]_vars

\* C2: when cancel_job races with the natural completion of a Running job,
\* the loser's write is a no-op: no step writes Cancelled over Completed and
\* no step writes Completed over Cancelled.
C2_OneWinnerOfTheRace ==
    [][\A j \in Kept :
          /\ ~(/\ jobs[j].status = "completed"
               /\ Cancelling(j)
               /\ jobs'[j].status = "cancelled")
          /\ ~(/\ jobs[j].status = "cancelled"
               /\ CancelledRunning(j)
               /\ jobs'[j].status = "completed")
      ]_vars

\* C3: once cancel_job has killed the registered process of a Running
\* transcription job and has returned, the process is dead, the wav of the
\* job is removed, and, whatever the runner thread did afterwards, the status
\* of the job when its runner has ended is Cancelled.
C3_CancelledIsFinal ==
    \A j \in DOMAIN jobs :
        (/\ jobs[j].job_type = "transcribe"
         /\ CancelledRunning(j) /\ cancel.killed
         /\ pc[j] = "done")
        => jobs[j].status = "cancelled"

\* C4: a job cancelled while Queued (its runner thread exists and has not
\* written yet) is never seen Running afterwards.
C4_CancelledQueuedNeverRuns ==
    [][\A j \in Kept :
          (jobs[j].status = "cancelled" /\ pc[j] \in StartPositions)
          => jobs'[j].status # "running"]_vars

\* C5: across two consecutive writes that both have status Running, the
\* progress of a job does not decrease.
C5_ProgressMonotoneWhileRunning ==
    [][\A j \in Kept :
          (jobs[j].status = "running" /\ jobs'[j].status = "running")
          => jobs'[j].progress >= jobs[j].progress]_vars

\* The artifacts of download job j: the produced files that exist.
Artifacts(j) == existing[j] \cap Range(downloaded_files[j])

C7_NoDuplicateChildren ==
    \A a, b \in DOMAIN jobs :
        (/\ a # b
         /\ jobs[a].parent_job_id # NULL
         /\ jobs[a].parent_job_id = jobs[b].parent_job_id)
        => jobs[a].video_path # jobs[b].video_path

\* C8: once a terminal status is stored for a job, a progress report of its
\* still running adapter changes nothing of the row.
C8_LateReportNotForwarded ==
    [][\A j \in Kept :
          (/\ jobs[j].status \in Terminal
           /\ pc[j] \notin StartPositions \cup {"none", "done"}
           /\ pc'[j] # "done"
           /\ cancel' = cancel)
          => jobs'[j] = jobs[j]]_vars

\* C9: a runner that starts when the status is no longer Queued does not
\* invoke the adapter and writes nothing.
C9_RunnerRechecksQueued ==
    [][\A j \in Kept :
          (/\ pc[j] \in StartPositions
           /\ pc'[j] # pc[j]
           /\ jobs[j].status # "queued")
          => (pc'[j] = "done" /\ jobs'[j] = jobs[j])]_vars

\* C10: once cancel_job has killed the ffmpeg of a Running transcode job and
\* has returned, and the runner has ended, the status of the job is
\* Cancelled and the output file of the job is gone.
C10_TranscodeCancelled ==
    \A j \in DOMAIN jobs :
        (/\ jobs[j].job_type = "transcode"
         /\ CancelledRunning(j) /\ cancel.killed
         /\ pc[j] = "done")
        => (/\ jobs[j].status = "cancelled"
            /\ <<"mp4", input_path[j]>> \notin files)

\* C15: in every reachable state the result column of a job is non-null
\* only when its status is Completed and the error column is non-null only
\* when its status is Failed.
C15_ResultAndErrorMatchStatus ==
    \A j \in DOMAIN jobs :
        /\ jobs[j].result # "NULL" => jobs[j].status = "completed"
        /\ jobs[j].error # "NULL" => jobs[j].status = "failed"

\* C16: update_job_status rejects a call for a job whose status is
\* terminal (and a call for an id that is not in the store) and leaves the
\* store as it is: no step changes a row whose status is Completed, Failed
\* or Cancelled.
C16_UpdateStatusRejects ==
    [][\A j \in Kept :
          jobs[j].status \in Terminal => jobs'[j] = jobs[j]]_vars

\* C17: no step moves a job directly from Queued to Completed or Failed.
C17_TerminalOnlyFromRunning ==
    [][\A j \in Kept :
          ~(/\ jobs[j].status = "queued"
            /\ jobs'[j].status \in {"completed", "failed"})]_vars

\* C19: no retries: the runner of a job never goes back to its start (the
\* stage adapter is invoked at most once), a Failed job is never written
\* Queued or Running again, and the step in which a job fails creates no
\* job.
C19_NoRetries ==
    [][\A j \in JobIds :
          /\ pc[j] \notin StartPositions \cup {"none"}
             => pc'[j] \notin StartPositions
          /\ pc[j] = "done" => pc'[j] = "done"
          /\ j \in Kept
             => /\ jobs[j].status = "failed"
                   => jobs'[j].status \notin {"queued", "running"}
                /\ (jobs[j].status # "failed" /\ jobs'[j].status = "failed")
                   => DOMAIN jobs' = DOMAIN jobs]_vars

\* C19 witness: a job that failed, with its error recorded, and whose
\* runner has ended.
C19_Witness ==
    \E j \in DOMAIN jobs :
        /\ jobs[j].status = "failed"
        /\ jobs[j].error # "NULL"
        /\ pc[j] = "done"

\* The columns of a row that update_job_status writes.
Written(row) ==
    [status |-> row.status, progress |-> row.progress,
     result |-> row.result, error |-> row.error]

Answered(handler, j, code) ==
    /\ response' # response
    /\ response'.handler = handler
    /\ response'.job = j
    /\ response'.code = code

\* C11: after delete_job(id) succeeds, whatever the status of the job, the
\* job is absent from get_jobs and get_job(id) is answered NotFound, now
\* and in every later state; delete_job on an absent id fails with
\* NotFound and changes nothing.
C11_DeleteRemovesJob ==
    [][\A j \in JobIds :
          /\ Answered("delete_job", j, 200)
             => /\ j \in DOMAIN jobs
                /\ get_job(jobs', j).code = 404
                /\ \A r \in get_jobs(jobs') : r.id # j
                /\ \A k \in DOMAIN jobs \ {j} :
                      get_job(jobs', k) = get_job(jobs, k)
          /\ Answered("delete_job", j, 404)
             => j \notin DOMAIN jobs /\ jobs' = jobs
          /\ (response'.handler = "delete_job" /\ response'.job = j
                /\ response' # response)
             => response'.code = IF j \in DOMAIN jobs THEN 200 ELSE 404
          /\ (j <= next_id /\ get_job(jobs, j).code = 404)
             => get_job(jobs', j).code = 404]_vars

\* C11 witness: a job was deleted while its runner thread was at work, and
\* it is absent from the store.
C11_Witness ==
    /\ response.handler = "delete_job"
    /\ response.code = 200
    /\ get_job(jobs, response.job).code = 404
    /\ pc[response.job] \notin {"none", "done"} \cup StartPositions

\* C12: restart_job(id) creates exactly one new job, in status Queued,
\* with an id different from the original's and with stored parameters
\* identical to the original's.
C12_RestartCopiesParameters ==
    [][\A j \in JobIds :
          Answered("restart_job", j, 200)
          => LET new_job_id == response'.new_job_id IN
               /\ new_job_id # j
               /\ new_job_id \notin DOMAIN jobs
               /\ DOMAIN jobs' = (DOMAIN jobs) \cup {new_job_id}
               /\ jobs'[new_job_id].status = "queued"
               /\ jobs'[new_job_id].parameters = jobs[j].parameters]_vars

\* C13: restart_job leaves the record of the original job unchanged, and
\* a step that changes the status of one job leaves every other job
\* unchanged (the original and its restart in particular).
C13_RestartIndependent ==
    [][/\ \A j \in JobIds :
             Answered("restart_job", j, 200)
             => \A k \in DOMAIN jobs :
                   k \in DOMAIN jobs' /\ jobs'[k] = jobs[k]
       /\ \A j \in Kept, k \in Kept :
             (j # k /\ jobs'[j].status # jobs[j].status)
             => jobs'[k] = jobs[k]]_vars

\* C13 witness: a job was restarted after it had ended and the new job is
\* Running while the original keeps its final status.
C13_Witness ==
    /\ response.handler = "restart_job"
    /\ response.code = 200
    /\ {response.job, response.new_job_id} \subseteq DOMAIN jobs
    /\ jobs[response.job].status \in Terminal
    /\ jobs[response.new_job_id].status = "running"

\* C14: cancel_job is rejected when the id is unknown or the status is not
\* Queued or Running, and only then; a rejected cancel_job leaves the
\* store, the process registry, the processes and the files unchanged and
\* publishes no event.
C14_RejectedCancelHasNoEffect ==
    [][/\ \A j \in JobIds :
             (Answered("cancel_job", j, 404) \/ Answered("cancel_job", j, 400))
             => /\ \/ j \notin DOMAIN jobs
                   \/ jobs[j].status \notin {"queued", "running"}
                /\ UNCHANGED <<jobs, active_job_processes, proc, files,
                               emitted, cancel>>
       /\ (cancel.pc = "idle" /\ cancel'.pc = "kill")
          => /\ cancel'.job \in DOMAIN jobs
             /\ jobs[cancel'.job].status \in {"queued", "running"}]_vars

\* C14 witness: cancel_job for a Cancelled job was answered 400 while the
\* process of another job is registered and alive.
C14_Witness ==
    /\ response.handler = "cancel_job"
    /\ response.code = 400
    /\ response.job \in DOMAIN jobs
    /\ jobs[response.job].status = "cancelled"
    /\ \E k \in active_job_processes : proc[k] = "alive"

\* C18: when the stage of a Running job that no cancel request names fails
\* (Popen raises, or the subprocess ends with a non-zero return code), the
\* runner ends with the job in status Failed and a non-empty error.
C18_FailureRecorded ==
    [][\A j \in Kept :
          (/\ jobs[j].status = "running"
           /\ cancel.job # j
           /\ pc'[j] = "done"
           /\ \/ pc[j] = "sub_popen"
              \/ pc[j] = "sub_loop" /\ proc[j] = "exit1")
          => /\ jobs'[j].status = "failed"
             /\ jobs'[j].error \notin {"NULL", ""}]_vars

\* C21: a transcribe job for a local file that no cancel request names
\* shows strictly increasing progress values over its Running writes and
\* becomes Completed with progress 100 and the segment count as result.
C21_TranscribeProgressIncreases ==
    [][\A j \in Kept :
          (/\ jobs[j].job_type = "transcribe"
           /\ jobs[j].url.scheme = "file"
           /\ cancel.job # j
           /\ jobs[j].status = "running"
           /\ Written(jobs'[j]) # Written(jobs[j]))
          => \/ /\ jobs'[j].status = "running"
                /\ jobs'[j].progress > jobs[j].progress
             \/ /\ jobs'[j].status = "completed"
                /\ jobs'[j].progress = 100
                /\ jobs'[j].result = "result"
             \/ jobs'[j].status = "failed"]_vars

\* The job ids that this step inserts.
Inserted == (DOMAIN jobs') \ (DOMAIN jobs)

\* C23: at the moment a child of download job p is inserted the stored
\* status of p is Completed, and no child is Running while its parent is
\* Running.
C23_ChildrenAfterCompletion ==
    [][/\ \A k \in Inserted :
             jobs'[k].parent_job_id # NULL
             => /\ jobs'[k].parent_job_id \in DOMAIN jobs
                /\ jobs[jobs'[k].parent_job_id].status = "completed"
       /\ \A k \in DOMAIN jobs :
             (/\ jobs[k].parent_job_id \in DOMAIN jobs
              /\ jobs[k].status = "running")
             => jobs[jobs[k].parent_job_id].status # "running"]_vars

\* C22: whenever a job is inserted with parent_job_id = p, a job with id p
\* and type download is in the store at that moment, delete_job requests
\* for p included.
C22_ParentExistsAtCreation ==
    [][\A k \in Inserted :
          jobs'[k].parent_job_id # NULL
          => /\ jobs'[k].parent_job_id \in DOMAIN jobs
             /\ jobs[jobs'[k].parent_job_id].job_type = "download"]_vars

\* C24: the status Cancelled is never in the store while the process
\* registered for the job is alive: cancel_job kills the registered
\* process, then runs the cleanup, and only then writes 'cancelled'.
C24_CancelledAfterKill ==
    \A j \in DOMAIN jobs :
        jobs[j].status = "cancelled"
        => ~(j \in active_job_processes /\ proc[j] = "alive")

\* C25: when cancel_job has terminated the registered process tree of a
\* job and has returned, no process of the job is alive.
C25_KilledTreeIsDead ==
    (cancel.pc = "idle" /\ cancel.killed) => proc[cancel.job] \notin Live

\* C29: clear_jobs removes only jobs whose status is Completed, Failed or
\* Cancelled and is in the requested list; a Queued or Running job is
\* never removed by it.
C29_ClearOnlyTerminal ==
    [][(response' # response /\ response'.handler = "clear_jobs")
       => \A j \in (DOMAIN jobs) \ (DOMAIN jobs') :
             jobs[j].status \in Terminal]_vars

C30_ProgressInRange ==
    \A j \in DOMAIN jobs : jobs[j].progress \in 0..100

\* ------------------------------------------------- a job store that fails
\* jobs.db becomes unusable (another writer holds the lock, the disk is
\* full) and usable again.
db_fails ==
    /\ ~db_error
    /\ db_error' = TRUE
    /\ UNCHANGED <<jobs, next_id, requests, pc, active_job_processes, proc,
                   files, downloaded_files, existing, todo,
                   transcription_jobs, last_progress, input_path,
                   audio_source, cancel, emitted, output_lines, response,
                   TRANSCRIPTION_AVAILABLE, job_created>>

db_recovers ==
    /\ db_error
    /\ db_error' = FALSE
    /\ UNCHANGED <<jobs, next_id, requests, pc, active_job_processes, proc,
                   files, downloaded_files, existing, todo,
                   transcription_jobs, last_progress, input_path,
                   audio_source, cancel, emitted, output_lines, response,
                   TRANSCRIPTION_AVAILABLE, job_created>>

\* Transcode jobs on a job store that fails now and then.
NextStore ==
    \/ \E p \in Paths : transcode_to_mp4(p)
    \/ \E j \in JobIds : run_transcode_job_start(j)
    \/ \E j \in JobIds : run_transcode_job_probe(j)
    \/ \E j \in JobIds : run_transcode_job_spawn(j)
    \/ \E j \in JobIds : run_transcode_job_line(j)
    \/ \E j \in JobIds : process_exit(j)
    \/ \E j \in JobIds : run_transcode_job_wait(j)
    \/ \E j \in JobIds : run_transcode_job_result(j)
    \/ \E j \in JobIds : run_transcode_job_except(j)
    \/ db_fails
    \/ db_recovers

SpecStore == Init /\ [][NextStore]_vars

\* C26: once a runner thread has ended, active_job_processes holds no
\* entry for its job: the entry is removed on every path on which the
\* process exits or the runner gives up.
C26_RegistryClearedAtEnd ==
    \A j \in JobIds : pc[j] = "done" => j \notin active_job_processes

\* C28: while the job store raises, a call of update_job_status leaves the
\* rows and the published events as they are, and the runner that called
\* it goes on: only the SELECT of the output loop takes a runner to its
\* exception handler.
C28_FailedWriteKeepsState ==
    [][db_error =>
         /\ UNCHANGED <<jobs, emitted>>
         /\ \A j \in JobIds :
               (pc'[j] = "tc_except" /\ pc[j] # "tc_except")
                   => pc[j] = "tc_loop"]_vars

C28_Witness ==
    \E j \in DOMAIN jobs :
        /\ db_error
        /\ pc[j] = "tc_probe"
        /\ jobs[j].status = "queued"
        /\ emitted[j] = NoEvent

\* C39: in every reachable state a job whose persisted status is
\* 'completed' has persisted progress 100.
C39_CompletedIsFull ==
    \A j \in DOMAIN jobs :
        jobs[j].status = "completed" => jobs[j].progress = 100

C39_Witness ==
    \E j, k \in DOMAIN jobs :
        /\ jobs[j].job_type = "download"
        /\ jobs[j].status = "completed"
        /\ jobs[k].job_type = "transcribe"
        /\ jobs[k].status = "completed"

\* C36: no job_update event is published for an update that matched zero
\* rows: an event for a job id is emitted only while the job has a row.
C36_NoEventWithoutRow ==
    [][\A j \in JobIds : emitted'[j] # emitted[j] => j \in DOMAIN jobs]_vars

\* C37: a deleted job never comes back: rows are inserted only under ids
\* that were never handed out before, whatever the runner of a deleted job
\* or a cancel request for it writes afterwards.
C37_DeletedStaysDeleted ==
    [][\A j \in Inserted : j > next_id]_vars

C37_Witness ==
    \E j \in JobIds :
        /\ j \notin DOMAIN jobs
        /\ response.handler = "delete_job"
        /\ response.job = j
        /\ response.code = 200
        /\ pc[j] = "sub_loop"
        /\ cancel.job = j
        /\ cancel.pc = "persist"

\* C38: in every reachable state a job id with an entry in
\* active_job_processes has a row whose status is 'running'.
C38_RegisteredIsRunning ==
    \A j \in active_job_processes :
        j \in DOMAIN jobs /\ jobs[j].status = "running"

\* --------------------------------- cancel_job against a runner that pops
\* cancel_job_kill in the two steps in which the interpreter runs it, with
\* other threads in between.  First "if job_id in active_job_processes".
cancel_job_member ==
    /\ cancel.pc = "kill"
    /\ cancel' = [cancel EXCEPT
                    !.pc = IF cancel.job \in active_job_processes
                           THEN "lookup" ELSE "cleanup"]
    /\ UNCHANGED <<jobs, next_id, requests, pc, active_job_processes, proc,
                   files, downloaded_files, existing, todo,
                   transcription_jobs, last_progress, input_path,
                   audio_source, emitted, output_lines, response,
                   TRANSCRIPTION_AVAILABLE, db_error, job_created>>

\* Then "process = active_job_processes[job_id]", outside the inner try: a
\* KeyError goes to the outer "except Exception", which answers 500 and
\* skips the cleanup and the update to 'cancelled'.  With the entry still
\* there the kill and the pop follow as in cancel_job_kill.
cancel_job_lookup ==
    /\ cancel.pc = "lookup"
    /\ IF cancel.job \in active_job_processes
       THEN /\ proc' = [proc EXCEPT ![cancel.job] =
                           IF @ = "alive" THEN "killed" ELSE @]
            /\ active_job_processes' = active_job_processes \ {cancel.job}
            /\ cancel' = [cancel EXCEPT !.pc = "cleanup", !.killed = TRUE]
            /\ UNCHANGED response
       ELSE /\ response' = [handler |-> "cancel_job", job |-> cancel.job,
                            code |-> 500, new_job_id |-> NULL]
            /\ cancel' = [cancel EXCEPT !.pc = "idle"]
            /\ UNCHANGED <<proc, active_job_processes>>
    /\ UNCHANGED <<jobs, next_id, requests, pc, files, downloaded_files,
                   existing, todo, transcription_jobs, last_progress,
                   input_path, audio_source, emitted, output_lines,
                   TRANSCRIPTION_AVAILABLE, db_error, job_created>>

\* Transcode jobs and cancel requests whose registry test and registry
\* lookup are separate steps.
NextLookup ==
    \/ \E p \in Paths : transcode_to_mp4(p)
    \/ \E j \in JobIds : run_transcode_job_start(j)
    \/ \E j \in JobIds : run_transcode_job_probe(j)
    \/ \E j \in JobIds : run_transcode_job_spawn(j)
    \/ \E j \in JobIds : run_transcode_job_line(j)
    \/ \E j \in JobIds : process_exit(j)
    \/ \E j \in JobIds : run_transcode_job_wait(j)
    \/ \E j \in JobIds : run_transcode_job_result(j)
    \/ \E j \in JobIds : cancel_job_check(j)
    \/ cancel_job_member
    \/ cancel_job_lookup
    \/ cancel_job_cleanup
    \/ cancel_job_persist

SpecLookup == Init /\ [][NextLookup]_vars

\* C32: a pop of the job's registry entry by its runner that falls between
\* the registry test and the registry lookup of cancel_job does not make
\* the cancellation fail: no accepted cancel request is answered 500.
C32_CancelSurvivesPop ==
    ~(response.handler = "cancel_job" /\ response.code = 500)

\* ------------------------------------------- submit_job and its events
\* submit_job, source_type 'youtube', in the two steps between which the
\* new thread can run.  First the INSERT and thread.start().
submit_job_insert ==
    /\ next_id < MaxJobs
    /\ requests < MaxRequests
    /\ requests' = requests + 1
    /\ next_id' = next_id + 1
    /\ jobs' = InsertRow(jobs, next_id + 1,
                 NewRow([scheme |-> "https", path |-> NULL], "download",
                        Parameters("title"), NULL, NULL))
    /\ pc' = [pc EXCEPT ![next_id + 1] = "dl_start"]
    /\ UNCHANGED <<active_job_processes, proc, files, downloaded_files,
                   existing, todo, transcription_jobs, last_progress,
                   input_path, audio_source, cancel, emitted, output_lines,
                   response, TRANSCRIPTION_AVAILABLE, db_error, job_created>>

\* Then socketio.emit('job_created', ...) and the answer.  The request
\* that awaits this step is the one whose thread was started and whose
\* event has not been emitted.
submit_job_emit(j) ==
    /\ pc[j] # "none"
    /\ j \notin job_created
    /\ job_created' = job_created \cup {j}
    /\ UNCHANGED <<jobs, next_id, requests, pc, active_job_processes, proc,
                   files, downloaded_files, existing, todo,
                   transcription_jobs, last_progress, input_path,
                   audio_source, cancel, emitted, output_lines, response,
                   TRANSCRIPTION_AVAILABLE, db_error>>

\* A download with its transcriptions, and the events of its jobs.
NextEvents ==
    \/ submit_job_insert
    \/ \E j \in JobIds : submit_job_emit(j)
    \/ \E j \in JobIds : run_download_job_start(j)
    \/ \E j \in JobIds : progress_hook(j)
    \/ \E j \in JobIds : run_download_job_extracted(j)
    \/ \E j \in JobIds : run_download_job_child(j)
    \/ \E j \in JobIds : run_download_job_completed(j)
    \/ \E j \in JobIds : run_download_job_failed(j)
    \/ \E j \in JobIds : run_transcription_job_start(j)
    \/ \E j \in JobIds : run_transcription_job_prepare(j)
    \/ \E j \in JobIds : run_transcription_job_popen(j)
    \/ \E j \in JobIds : run_transcription_job_line(j)
    \/ \E j \in JobIds : process_exit(j)
    \/ \E j \in JobIds : run_transcription_job_result(j)

SpecEvents == InitAdmin /\ [][NextEvents]_vars

\* C35: for every job the job_created event is emitted before any
\* job_update event for the same id.
C35_CreatedBeforeUpdate ==
    [][\A j \in JobIds : emitted'[j] # emitted[j] => j \in job_created]_vars

report_progress(j, percent) ==
    last_progress' = [last_progress EXCEPT ![j] = percent]

\* The positions of a call of transcribe_single_video.
SinglePositions == {"ts_id", "ts_check", "ts_cookie", "ts_download",
                    "ts_transcribe", "ts_file", "ts_file_run", "ts_return"}

\* The call: report_progress(0, "Extracting video ID...").
transcribe_single_video(j) ==
    /\ pc[j] = "none"
    /\ report_progress(j, 0)
    /\ pc' = [pc EXCEPT ![j] = "ts_id"]
    /\ UNCHANGED <<jobs, next_id, requests, active_job_processes, proc,
                   files, downloaded_files, existing, todo,
                   transcription_jobs, input_path, audio_source, cancel,
                   emitted, output_lines, response, TRANSCRIPTION_AVAILABLE,
                   db_error, job_created>>

\* extract_video_id: without a video id the call raises ValueError;
\* otherwise report_progress(5, "Video ID: ...").
transcribe_single_video_id(j) ==
    /\ pc[j] = "ts_id"
    /\ \E found \in BOOLEAN :
          IF found
          THEN /\ report_progress(j, 5)
               /\ pc' = [pc EXCEPT ![j] = "ts_check"]
          ELSE /\ pc' = [pc EXCEPT ![j] = "done"]
               /\ UNCHANGED last_progress
    /\ UNCHANGED <<jobs, next_id, requests, active_job_processes, proc,
                   files, downloaded_files, existing, todo,
                   transcription_jobs, input_path, audio_source, cancel,
                   emitted, output_lines, response, TRANSCRIPTION_AVAILABLE,
                   db_error, job_created>>

\* The look at the download directory: a .srt and the video there, report
\* 100 and return; the video there, report 40; no video, report 10 and go
\* on to the download.
transcribe_single_video_check(j) ==
    /\ pc[j] = "ts_check"
    /\ \E found \in {"srt", "video", "nothing"} :
          /\ report_progress(j, CASE found = "srt" -> 100
                                  [] found = "video" -> 40
                                  [] OTHER -> 10)
          /\ pc' = [pc EXCEPT ![j] = CASE found = "srt" -> "done"
                                       [] found = "video" -> "ts_transcribe"
                                       [] OTHER -> "ts_cookie"]
    /\ UNCHANGED <<jobs, next_id, requests, active_job_processes, proc,
                   files, downloaded_files, existing, todo,
                   transcription_jobs, input_path, audio_source, cancel,
                   emitted, output_lines, response, TRANSCRIPTION_AVAILABLE,
                   db_error, job_created>>

\* "if cookie_file and os.path.exists(cookie_file)":
\* report_progress(12, "Using cookies: ...").
transcribe_single_video_cookie(j) ==
    /\ pc[j] = "ts_cookie"
    /\ \E cookie_file \in BOOLEAN :
          IF cookie_file THEN report_progress(j, 12)
          ELSE UNCHANGED last_progress
    /\ pc' = [pc EXCEPT ![j] = "ts_download"]
    /\ UNCHANGED <<jobs, next_id, requests, active_job_processes, proc,
                   files, downloaded_files, existing, todo,
                   transcription_jobs, input_path, audio_source, cancel,
                   emitted, output_lines, response, TRANSCRIPTION_AVAILABLE,
                   db_error, job_created>>

\* download_progress_hook, d['status'] == 'downloading':
\* report_progress(10 + int(percent), ...) with percent =
\* downloaded_bytes / total_bytes * 30.
download_progress_hook(j) ==
    /\ pc[j] = "ts_download"
    /\ \E percent \in DownloadPercents :
          report_progress(j, 10 + (percent * 30) \div 100)
    /\ UNCHANGED <<jobs, next_id, requests, pc, active_job_processes, proc,
                   files, downloaded_files, existing, todo,
                   transcription_jobs, input_path, audio_source, cancel,
                   emitted, output_lines, response, TRANSCRIPTION_AVAILABLE,
                   db_error, job_created>>

\* ydl.extract_info returned: report_progress(40, "Downloaded: ..."); a
\* download that fails raises RuntimeError.
transcribe_single_video_downloaded(j) ==
    /\ pc[j] = "ts_download"
    /\ \E downloaded \in BOOLEAN :
          IF downloaded
          THEN /\ report_progress(j, 40)
               /\ pc' = [pc EXCEPT ![j] = "ts_transcribe"]
          ELSE /\ pc' = [pc EXCEPT ![j] = "done"]
               /\ UNCHANGED last_progress
    /\ UNCHANGED <<jobs, next_id, requests, active_job_processes, proc,
                   files, downloaded_files, existing, todo,
                   transcription_jobs, input_path, audio_source, cancel,
                   emitted, output_lines, response, TRANSCRIPTION_AVAILABLE,
                   db_error, job_created>>

\* report_progress(45, "Starting transcription...").
transcribe_single_video_transcribe(j) ==
    /\ pc[j] = "ts_transcribe"
    /\ report_progress(j, 45)
    /\ pc' = [pc EXCEPT ![j] = "ts_file"]
    /\ UNCHANGED <<jobs, next_id, requests, active_job_processes, proc,
                   files, downloaded_files, existing, todo,
                   transcription_jobs, input_path, audio_source, cancel,
                   emitted, output_lines, response, TRANSCRIPTION_AVAILABLE,
                   db_error, job_created>>

\* mapped_percent = 45 + int(percent * 0.55)
mapped_percent(percent) == 45 + (percent * 55) \div 100

\* transcribe_progress_callback: the reports of transcribe_file, mapped.
\* Of these the first (percent 1) and the last (percent 100) are taken;
\* transcribe_file can also raise, which ends the call with RuntimeError.
transcribe_progress_callback(j) ==
    /\ pc[j] \in {"ts_file", "ts_file_run"}
    /\ \E raised \in BOOLEAN :
          IF raised
          THEN /\ pc' = [pc EXCEPT ![j] = "done"]
               /\ UNCHANGED last_progress
          ELSE /\ report_progress(j, IF pc[j] = "ts_file"
                                     THEN mapped_percent(1)
                                     ELSE mapped_percent(100))
               /\ pc' = [pc EXCEPT ![j] = IF pc[j] = "ts_file"
                                          THEN "ts_file_run"
                                          ELSE "ts_return"]
    /\ UNCHANGED <<jobs, next_id, requests, active_job_processes, proc,
                   files, downloaded_files, existing, todo,
                   transcription_jobs, input_path, audio_source, cancel,
                   emitted, output_lines, response, TRANSCRIPTION_AVAILABLE,
                   db_error, job_created>>

\* report_progress(100, "Transcription complete! ...") and the return.
transcribe_single_video_return(j) ==
    /\ pc[j] = "ts_return"
    /\ report_progress(j, 100)
    /\ pc' = [pc EXCEPT ![j] = "done"]
    /\ UNCHANGED <<jobs, next_id, requests, active_job_processes, proc,
                   files, downloaded_files, existing, todo,
                   transcription_jobs, input_path, audio_source, cancel,
                   emitted, output_lines, response, TRANSCRIPTION_AVAILABLE,
                   db_error, job_created>>

\* Calls of transcribe_single_video, one for each caller.
NextSingle ==
    \/ \E j \in JobIds : transcribe_single_video(j)
    \/ \E j \in JobIds : transcribe_single_video_id(j)
    \/ \E j \in JobIds : transcribe_single_video_check(j)
    \/ \E j \in JobIds : transcribe_single_video_cookie(j)
    \/ \E j \in JobIds : download_progress_hook(j)
    \/ \E j \in JobIds : transcribe_single_video_downloaded(j)
    \/ \E j \in JobIds : transcribe_single_video_transcribe(j)
    \/ \E j \in JobIds : transcribe_progress_callback(j)
    \/ \E j \in JobIds : transcribe_single_video_return(j)

SpecSingle == Init /\ [][NextSingle]_vars

\* C34: over one call of transcribe_single_video the percent values handed
\* to the progress callback never decrease.
C34_ReportsNeverDecrease ==
    [][\A j \in JobIds :
          pc[j] \in SinglePositions
              => last_progress'[j] >= last_progress[j]]_vars

\* ------------------------------------------------- runners that go on
\* Transcriptions of files, transcodes, restarts and cancel requests; no
\* job is deleted.
NextLive ==
    \/ \E p \in Paths : submit_job_file(p)
    \/ \E j \in JobIds : run_transcription_job_start(j)
    \/ \E j \in JobIds : run_transcription_job_prepare(j)
    \/ \E j \in JobIds : run_transcription_job_popen(j)
    \/ \E j \in JobIds : run_transcription_job_line(j)
    \/ \E j \in JobIds : process_exit(j)
    \/ \E j \in JobIds : run_transcription_job_result(j)
    \/ \E p \in Paths : transcode_to_mp4(p)
    \/ \E j \in JobIds : run_transcode_job_start(j)
    \/ \E j \in JobIds : run_transcode_job_probe(j)
    \/ \E j \in JobIds : run_transcode_job_spawn(j)
    \/ \E j \in JobIds : run_transcode_job_line(j)
    \/ \E j \in JobIds : run_transcode_job_wait(j)
    \/ \E j \in JobIds : run_transcode_job_result(j)
    \/ \E j \in JobIds : restart_job(j)
    \/ \E j \in JobIds : cancel_job_check(j)
    \/ cancel_job_kill
    \/ cancel_job_cleanup
    \/ cancel_job_persist

\* The steps of the thread of job j that take it forward: the statements
\* of the runner between its progress reports, and the exit of the process
\* the runner waits for.
Forward(j) ==
    \/ run_transcription_job_start(j)
    \/ run_transcription_job_prepare(j)
    \/ run_transcription_job_popen(j)
    \/ process_exit(j)
    \/ run_transcription_job_result(j)
    \/ run_transcode_job_start(j)
    \/ run_transcode_job_probe(j)
    \/ run_transcode_job_spawn(j)
    \/ run_transcode_job_wait(j)
    \/ run_transcode_job_result(j)

\* Threads are scheduled and processes exit.
SpecLive ==
    /\ InitAdmin
    /\ [][NextLive]_vars
    /\ \A j \in JobIds : WF_vars(Forward(j))

====
